---- MODULE Spec2Model ----
(***************************************************************************)
(* A model of gseapy/gsea.py: the ranking metric (GSEA.calculate_metric),  *)
(* the class-label and data loaders, and the three run procedures          *)
(* (GSEA.run, Prerank.run, SingleSampleGSEA.run).                          *)
(*                                                                         *)
(* Numbers.  Means, standard deviations and scores are exact: a rational   *)
(* is a pair <<n, d>> in lowest terms with d > 0, and a score is a record  *)
(* of one of the kinds                                                     *)
(*    "nan", "pinf", "ninf"   the IEEE values NaN, +inf, -inf              *)
(*    "fin"                   the real number sgn * sqrt(sq)               *)
(*    "log2"                  the real number log2(arg), arg > 0           *)
(* so that a quotient by a square root (t_test) and a logarithm are        *)
(* compared exactly.  Floating point rounding is not modelled.             *)
(* Positions in a table are 1-based here and 0-based in the Python code.   *)
(***************************************************************************)
EXTENDS Integers, Sequences, FiniteSets, TLC

\* ---------------------------------------------------------------- bounds
\* The largest number of genes (rows) of an expression table.
MaxGenes == 2

\* ------------------------------------------------------ exact arithmetic
AbsI(n) == IF n < 0 THEN -n ELSE n

SignI(n) == IF n < 0 THEN -1 ELSE IF n = 0 THEN 0 ELSE 1

RECURSIVE GCD(_, _)
GCD(a, b) == IF b = 0 THEN a ELSE GCD(b, a % b)

\* The rational n/d (d # 0) in lowest terms with a positive denominator.
Rat(n, d) ==
    LET g == GCD(AbsI(n), AbsI(d))
        s == IF d < 0 THEN -1 ELSE 1
    IN  <<s * (n \div g), s * (d \div g)>>

RInt(n) == <<n, 1>>
RZero == <<0, 1>>
RAdd(a, b) == Rat(a[1] * b[2] + b[1] * a[2], a[2] * b[2])
RSub(a, b) == Rat(a[1] * b[2] - b[1] * a[2], a[2] * b[2])
RMul(a, b) == Rat(a[1] * b[1], a[2] * b[2])
RDiv(a, b) == Rat(a[1] * b[2], a[2] * b[1])
RLess(a, b) == a[1] * b[2] < b[1] * a[2]
RSign(a) == SignI(a[1])

IsSquareI(n) == \E k \in 0..n : k * k = n
SqrtI(n) == CHOOSE k \in 0..n : k * k = n
\* A rational with a rational square root, and that root.
IsSquareR(a) == a[1] >= 0 /\ IsSquareI(a[1]) /\ IsSquareI(a[2])
RSqrt(a) == <<SqrtI(a[1]), SqrtI(a[2])>>

RECURSIVE SumSeq(_)
SumSeq(s) == IF s = <<>> THEN RZero ELSE RAdd(Head(s), SumSeq(Tail(s)))

\* ------------------------------------------------------- IEEE-like scores
NaN == [k |-> "nan"]
PInf == [k |-> "pinf"]
NInf == [k |-> "ninf"]
Fin(s, q) == [k |-> "fin", sgn |-> s, sq |-> q]
\* The score that is the rational x.
FinR(x) == Fin(RSign(x), RMul(x, x))

\* float division x / y of two finite numbers: x/0 is +-inf, 0/0 is NaN.
FDiv(x, y) ==
    IF y = RZero
    THEN IF RSign(x) > 0 THEN PInf ELSE IF RSign(x) < 0 THEN NInf ELSE NaN
    ELSE FinR(RDiv(x, y))

\* x / np.sqrt(r) for a finite x and a finite r >= 0.
FDivSqrt(x, r) ==
    IF r = RZero
    THEN IF RSign(x) > 0 THEN PInf ELSE IF RSign(x) < 0 THEN NInf ELSE NaN
    ELSE Fin(RSign(x), RDiv(RMul(x, x), r))

\* Series.abs()
FAbs(v) ==
    CASE v.k = "ninf" -> PInf
      [] v.k = "fin" -> Fin(AbsI(v.sgn), v.sq)
      [] OTHER -> v

\* np.log2(x / y) of two finite numbers.
FLog2Div(x, y) ==
    LET q == FDiv(x, y)
    IN  CASE q.k = "nan" -> NaN
          [] q.k = "ninf" -> NaN
          [] q.k = "pinf" -> PInf
          [] q.sgn < 0 -> NaN
          [] q.sgn = 0 -> NInf
          [] OTHER -> [k |-> "log2", arg |-> RDiv(x, y)]

\* The order numpy sorts floats in: -inf < finite < +inf < NaN.
Band(v) ==
    CASE v.k = "ninf" -> 0
      [] v.k = "pinf" -> 2
      [] v.k = "nan" -> 3
      [] OTHER -> 1

FLess(a, b) ==
    \/ Band(a) < Band(b)
    \/ /\ a.k = "fin" /\ b.k = "fin"
       /\ \/ a.sgn < b.sgn
          \/ a.sgn = 1 /\ b.sgn = 1 /\ RLess(a.sq, b.sq)
          \/ a.sgn = -1 /\ b.sgn = -1 /\ RLess(b.sq, a.sq)
    \/ /\ a.k = "log2" /\ b.k = "log2" /\ RLess(a.arg, b.arg)

FLeq(a, b) == ~FLess(b, a)

\* --------------------------------------------------- expression tables
\* Gene identifiers; GeneName(i) is the i-th of them.
GeneName(i) == <<"g", i>>

\* The sample -> class mappings and cell values used when calculate_metric
\* is called on its own: six samples, three per class, with values 0..2 and
\* the first sample at 0, and seven samples, three of class "A" and four of
\* class "B", with values 0..1. low is the set of values of the first sample.
Layouts ==
    {[classes |-> <<"A", "B", "A", "B", "A", "B">>, vals |-> {0, 1, 2}, low |-> {0}],
     [classes |-> <<"A", "B", "A", "B", "A", "B", "B">>, vals |-> {0, 1}, low |-> {0, 1}]}

\* The columns a class mapping sends to label c (one group of groupby).
GroupCols(classes, c) == {j \in DOMAIN classes : classes[j] = c}

\* The sum of row[j]^e over the columns j <= last of a group.
RECURSIVE PowerSum(_, _, _, _)
PowerSum(row, cols, e, last) ==
    IF last = 0 THEN 0
    ELSE (IF last \in cols THEN row[last] ^ e ELSE 0) + PowerSum(row, cols, e, last - 1)

\* DataFrame.groupby(by=classes, axis=1).mean(): the mean of a row over the
\* columns of one group.
GroupMean(row, cols) == Rat(PowerSum(row, cols, 1, Len(row)), Cardinality(cols))

\* The variance behind DataFrame.groupby(...).std(): pandas' std is the
\* sample standard deviation (ddof = 1), the sum of squared deviations from
\* the mean, sum(x^2) - sum(x)^2 / n, over n - 1.
GroupVar(row, cols) ==
    LET n == Cardinality(cols)
        s1 == PowerSum(row, cols, 1, Len(row))
        s2 == PowerSum(row, cols, 2, Len(row))
    IN  Rat(n * s2 - s1 * s1, n * (n - 1))

GroupStd(row, cols) == RSqrt(GroupVar(row, cols))

\* Rows whose group standard deviations are rational (so that std_pos +
\* std_neg is exact), one representative per arrangement of the values
\* inside a class: the values of a class are listed in non-decreasing order.
RowOK(row, classes) ==
    \A c \in {classes[j] : j \in DOMAIN classes} :
        LET cols == GroupCols(classes, c)
        IN  /\ IsSquareR(GroupVar(row, cols))
            /\ \A i, j \in cols : i < j => row[i] <= row[j]

RowPool(lay) ==
    {row \in [DOMAIN lay.classes -> lay.vals] :
        row[1] \in lay.low /\ RowOK(row, lay.classes)}

\* ------------------------------------------------ GSEA.calculate_metric
\* The metric names calculate_metric compares with, branch by branch.
S2NNames == {"signal_to_noise", "s2n"}
AbsS2NNames == {"abs_signal_to_noise", "abs_s2n"}

SignalToNoise(mp, mn, sp, sn) == FDiv(RSub(mp, mn), RAdd(sp, sn))

AbsSignalToNoise(mp, mn, sp, sn) == FAbs(FDiv(RSub(mp, mn), RAdd(sp, sn)))

\* A t_test that divides each variance by the other group's size.
TTestSwapped(mp, mn, sp, sn, n_pos, n_neg) ==
    FDivSqrt(RSub(mp, mn),
             RAdd(RDiv(RMul(sp, sp), RInt(n_neg)), RDiv(RMul(sn, sn), RInt(n_pos))))

TTest(mp, mn, sp, sn, n_pos, n_neg) ==
    FDivSqrt(RSub(mp, mn),
             RAdd(RDiv(RMul(sp, sp), RInt(n_pos)), RDiv(RMul(sn, sn), RInt(n_neg))))

RatioOfClasses(mp, mn) == FDiv(mp, mn)

DiffOfClasses(mp, mn) == FinR(RSub(mp, mn))

Log2RatioOfClasses(mp, mn) == FLog2Div(mp, mn)

\* The else branch: raise LookupError.
MetricSupported(method) ==
    method \in S2NNames \cup AbsS2NNames
        \cup {"t_test", "ratio_of_classes", "diff_of_classes", "log2_ratio_of_classes"}

\* The if/elif chain of calculate_metric for one gene (one row of df).
MetricOfRow(row, method, pos, neg, classes) ==
    LET pcols == GroupCols(classes, pos)
        ncols == GroupCols(classes, neg)
        mp == GroupMean(row, pcols)
        mn == GroupMean(row, ncols)
        sp == GroupStd(row, pcols)
        sn == GroupStd(row, ncols)
        n_pos == Cardinality(pcols)
        n_neg == Cardinality(ncols)
    IN  CASE method \in S2NNames -> SignalToNoise(mp, mn, sp, sn)
          [] method \in AbsS2NNames -> AbsSignalToNoise(mp, mn, sp, sn)
          [] method = "t_test" -> TTest(mp, mn, sp, sn, n_pos, n_neg)
          [] method = "ratio_of_classes" -> RatioOfClasses(mp, mn)
          [] method = "diff_of_classes" -> DiffOfClasses(mp, mn)
          [] method = "log2_ratio_of_classes" -> Log2RatioOfClasses(mp, mn)

\* ser before sorting: one score per row of df, in df's order.
MetricSer(df, method, pos, neg, classes) ==
    [i \in DOMAIN df |-> MetricOfRow(df[i].vals, method, pos, neg, classes)]

IndexOrdersOf ==
    [n \in 0..(MaxGenes + 1) |->
        {p \in [1..n -> 1..n] : \A i, j \in 1..n : i # j => p[i] # p[j]}]

\* The orders of the positions 1..n.
IndexOrders(n) == IndexOrdersOf[n]

\* ser.values.argsort(): numpy's default sort kind is not stable, so any
\* index order that sorts the values (NaN last) is a possible outcome.
Argsort(values) ==
    {p \in IndexOrders(Len(values)) :
        \A i \in 1..(Len(values) - 1) : FLeq(values[p[i]], values[p[i + 1]])}

Reverse(s) == [i \in DOMAIN s |-> s[Len(s) + 1 - i]]

\* ser.iloc[ser_ind], carrying the gene names of df's index.
Iloc(df, values, ind) ==
    [i \in DOMAIN ind |-> [gene |-> df[ind[i]].gene, score |-> values[ind[i]]]]

\* A result that is never reversed for the descending order.
MetricResultNoReverse(df, values, ind, ascending) ==
    [ser_ind |-> ind, ser |-> Iloc(df, values, ind)]

\* The pair calculate_metric returns for one argsort outcome.
MetricResult(df, values, ind, ascending) ==
    IF ascending
    THEN [ser_ind |-> ind, ser |-> Iloc(df, values, ind)]
    ELSE [ser_ind |-> Reverse(ind), ser |-> Reverse(Iloc(df, values, ind))]

\* Every result calculate_metric can return (it raises when unsupported).
CalculateMetric(df, method, pos, neg, classes, ascending) ==
    LET values == MetricSer(df, method, pos, neg, classes)
    IN  {MetricResult(df, values, ind, ascending) : ind \in Argsort(values)}

\* ------------------------------------------------------ the run objects
\* Python's None and a value that is not None.
None == <<>>
Some(x) == <<x>>
The(o) == o[1]

\* str.lower() on the metric names used here.
Lower(name) == IF name = "S2N" THEN "s2n" ELSE name

\* The chain with an else branch that falls back to the default metric.
RunMetricDefault(m) ==
    CASE m \in {"signal_to_noise", "s2n"} -> Some("Signal2Noise")
      [] m \in {"s2n", "abs_signal_to_noise", "abs_s2n"} -> Some("AbsSignal2Noise")
      [] m = "t_test" -> Some("Ttest")
      [] m = "ratio_of_classes" -> Some("RatioOfClasses")
      [] m = "diff_of_classes" -> Some("DiffOfClasses")
      [] m = "log2_ratio_of_classes" -> Some("Log2RatioOfClasses")
      [] OTHER -> Some("Signal2Noise")

\* The if/elif chain at the start of GSEA.run: the Metric a lower-cased name
\* selects, None for the else branch (raise).
RunMetric(m) ==
    CASE m \in {"signal_to_noise", "s2n"} -> Some("Signal2Noise")
      [] m \in {"s2n", "abs_signal_to_noise", "abs_s2n"} -> Some("AbsSignal2Noise")
      [] m = "t_test" -> Some("Ttest")
      [] m = "ratio_of_classes" -> Some("RatioOfClasses")
      [] m = "diff_of_classes" -> Some("DiffOfClasses")
      [] m = "log2_ratio_of_classes" -> Some("Log2RatioOfClasses")
      [] OTHER -> None

\* int(permutation_num) if int(permutation_num) > 0 else 0
ClampPermutationNum(n) == IF n > 0 THEN n ELSE 0

\* int(permutation_num) if permutation_num else None, for an int or None.
SsgseaPermutationNum(o) == IF o = None \/ The(o) = 0 THEN None ELSE o

\* Counter(labels): the distinct labels and the count of each.
LabelsOf(labels) == {labels[j] : j \in DOMAIN labels}
CountOf(labels, c) == Cardinality({j \in DOMAIN labels : labels[j] = c})
FirstOf(labels, c) == CHOOSE j \in DOMAIN labels : labels[j] = c /\ \A i \in 1..(j - 1) : labels[i] # c

\* sorted(class_values.items(), key=lambda item: item[1]): the labels by
\* ascending count, labels of equal count in order of first appearance.
SortedByCount(labels) ==
    LET L == LabelsOf(labels)
        n == Cardinality(L)
    IN  CHOOSE s \in [1..n -> L] :
            /\ \A i, j \in 1..n : i < j =>
                  \/ CountOf(labels, s[i]) < CountOf(labels, s[j])
                  \/ /\ CountOf(labels, s[i]) = CountOf(labels, s[j])
                     /\ FirstOf(labels, s[i]) < FirstOf(labels, s[j])

\* The size a group needs (the v < 3 test of load_classes).
MinGroupSize == 3

\* load_classes for a dict without the test of the group sizes.
LoadClassesDictNoSizeTest(labels, old_pos, old_neg) ==
    LET s == SortedByCount(labels)
    IN  IF Len(s) < 2
        THEN [raised |-> TRUE, pheno_pos |-> old_pos, pheno_neg |-> old_neg,
              cls_vector |-> None]
        ELSE [raised |-> FALSE, pheno_pos |-> s[1], pheno_neg |-> s[2],
              cls_vector |-> None]

\* GSEA.load_classes for a dict: [raised, pheno_pos, pheno_neg, cls_vector].
\* The loop raises at the first (smallest) group below MinGroupSize; then
\* s[0] and s[1] are read in turn, s[1] raising IndexError after pheno_pos
\* was assigned; the function returns None.
LoadClassesDict(labels, old_pos, old_neg) ==
    LET s == SortedByCount(labels)
    IN  IF \E c \in LabelsOf(labels) : CountOf(labels, c) < MinGroupSize
        THEN [raised |-> TRUE, pheno_pos |-> old_pos, pheno_neg |-> old_neg,
              cls_vector |-> None]
        ELSE IF Len(s) = 0
        THEN [raised |-> TRUE, pheno_pos |-> old_pos, pheno_neg |-> old_neg,
              cls_vector |-> None]
        ELSE IF Len(s) = 1
        THEN [raised |-> TRUE, pheno_pos |-> s[1], pheno_neg |-> old_neg,
              cls_vector |-> None]
        ELSE [raised |-> FALSE, pheno_pos |-> s[1], pheno_neg |-> s[2],
              cls_vector |-> None]

\* gseapy.parser.gsea_cls_parser for a list of labels: the first and second
\* label and the list; it fails unless there are exactly two labels with at
\* least three samples each.
GseaClsParser(labels, old_pos, old_neg) ==
    LET L == LabelsOf(labels)
        first == CHOOSE c \in L : \A d \in L : FirstOf(labels, c) <= FirstOf(labels, d)
        second == CHOOSE c \in L \ {first} : TRUE
    IN  IF Cardinality(L) # 2 \/ \E c \in L : CountOf(labels, c) < 3
        THEN [raised |-> TRUE, pheno_pos |-> old_pos, pheno_neg |-> old_neg,
              cls_vector |-> None]
        ELSE [raised |-> FALSE, pheno_pos |-> first, pheno_neg |-> second,
              cls_vector |-> Some(labels)]

\* GSEA.load_classes
LoadClasses(classes_in, old_pos, old_neg) ==
    IF classes_in.kind = "dict"
    THEN LoadClassesDict(classes_in.labels, old_pos, old_neg)
    ELSE GseaClsParser(classes_in.labels, old_pos, old_neg)

\* A table read from self.data: ncols numeric sample columns and rows
\* [gene, vals]. Column names are the positions 1..ncols.

\* The rows as they are, duplicated gene names included.
KeepAllRows(rows) == rows

\* exprs.drop_duplicates(subset=exprs.columns[0]): the first row of each gene.
DropDuplicates(rows) ==
    LET keep == {i \in DOMAIN rows : \A j \in 1..(i - 1) : rows[j].gene # rows[i].gene}
        F[i \in 0..Len(rows)] ==
            IF i = 0 THEN <<>>
            ELSE IF i \in keep THEN Append(F[i - 1], rows[i]) ELSE F[i - 1]
    IN  F[Len(rows)]

\* df.iloc[:, 1:] of one row.
DropFirstColumn(row) ==
    [gene |-> row.gene, vals |-> [j \in 1..(Len(row.vals) - 1) |-> row.vals[j + 1]]]

\* {k: v for k, v in zip(df.columns, cls_vec)}: zip stops at the shorter.
ZipClsDict(ncols, cls_vec) ==
    [j \in 1..(IF ncols < Len(cls_vec) THEN ncols ELSE Len(cls_vec)) |-> cls_vec[j]]

\* df_std.sum(axis=1): the sum over the classes of a row's group std.
RECURSIVE StdSumOver(_, _, _)
StdSumOver(row, cls_dict, labels) ==
    IF labels = {} THEN RZero
    ELSE LET c == CHOOSE x \in labels : TRUE
         IN  RAdd(GroupStd(row, GroupCols(cls_dict, c)),
                  StdSumOver(row, cls_dict, labels \ {c}))

StdSum(row, cls_dict) == StdSumOver(row, cls_dict, LabelsOf(cls_dict))

\* df[df_std.sum(axis=1) > 0]
KeepVarying(rows, cls_dict) ==
    SelectSeq(rows, LAMBDA r : RLess(RZero, StdSum(r.vals, cls_dict)))

\* The constant load_data adds to every cell (df + 1e-08). A table gives its
\* cells in a unit; dat keeps the cells, in that unit, and carries the offset.
Offset == "1e-08"

\* The units of a table's cells: 1, and 1e-30, which is below half the
\* spacing of the float64 numbers around 1e-08.
Units == {"1", "1e-30"}

\* df + 1e-08 on one row, in float64: a small multiple of 1e-30 plus 1e-08
\* rounds to 1e-08 itself, so every such cell becomes the same number; a cell
\* in unit 1 keeps its distance from the others.
AddOffset(row, unit) ==
    IF unit = "1e-30"
    THEN [row EXCEPT !.vals = [j \in DOMAIN row.vals |-> 0]]
    ELSE row

\* GSEA.load_data(cls_vec) for a table [ncols, unit, rows] and a list cls_vec.
LoadData(table, cls_vec) ==
    LET exprs == DropDuplicates(table.rows)
        shifted == Len(cls_vec) = table.ncols - 1
        df == IF shifted THEN [i \in DOMAIN exprs |-> DropFirstColumn(exprs[i])]
              ELSE exprs
        ncols == IF shifted THEN table.ncols - 1 ELSE table.ncols
        cls_dict == ZipClsDict(ncols, cls_vec)
        kept == KeepVarying(df, cls_dict)
    IN  [dat |-> [i \in DOMAIN kept |-> AddOffset(kept[i], table.unit)],
         offset |-> Offset, cls_dict |-> cls_dict]

\* dat.index.values: the gene names of a table, in order.
IndexOf(rows) == [i \in DOMAIN rows |-> rows[i].gene]
GenesOf(rows) == {rows[i].gene : i \in DOMAIN rows}

\* GSEAbase.load_gmt(gene_list, gmt): the gene sets with at least min_size
\* and at most max_size members among gene_list.
LoadGmt(gene_list, gene_sets, min_size, max_size) ==
    LET hits(t) == Cardinality(gene_sets[t] \cap gene_list)
        keep == {t \in DOMAIN gene_sets : min_size <= hits(t) /\ hits(t) <= max_size}
    IN  [t \in keep |-> gene_sets[t]]

\* The scoring engine (gsea_rs, prerank_rs, prerank2d_rs, ssgsea_rs) on a
\* gene universe and the surviving gene sets: it fails on a negative
\* permutation count and on a set with no member in the universe, and gives
\* one summary per set; NES, pval and FDR are NaN when there are no
\* permutations and come from the null scores otherwise.
EngineSummaries(genes, gmt, permutation_num) ==
    LET v == IF permutation_num = 0 THEN "nan" ELSE "from_null"
    IN  IF permutation_num < 0 \/ \E t \in DOMAIN gmt : gmt[t] \cap genes = {}
        THEN None
        ELSE Some({[term |-> t, nes |-> v, pval |-> v, fdr |-> v] : t \in DOMAIN gmt})

\* GSEAbase.to_df: one record of res2d per summary.
ToDf(summaries) == summaries

\* ----------------------------------------------------- state of a run
\* self:     the attributes of the GSEA / Prerank / SingleSampleGSEA object
\* inputs:   what the run has read from self.classes, self.data (self.rnk)
\*           and self.gene_sets; each is read once, when the run first opens
\*           it, and is None until then
\* loc:      the local variables of run
\* pc, err:  the position in run, and the place of the exception that ended it
\* events:   the loaders, the engine and to_df, in the order they were called
\* engine_call: the arguments the scoring engine was invoked with
VARIABLES self, inputs, loc, pc, err, events, engine_call

runVars == <<self, inputs, loc, pc, err, events, engine_call>>

\* A direct call of GSEA.calculate_metric: its arguments, its position (mpc:
\* "call", then "returned" or "raised") and the returned pair.
VARIABLES df, method, pos, neg, classes, ascending, mpc, ser_ind, ser

metricVars == <<df, method, pos, neg, classes, ascending, mpc, ser_ind, ser>>

\* The scoring engine at work on one call: the seed, thread count, number of
\* permutations and surviving gene sets it was called with (call), what each
\* worker holds (pool), the null scores written so far (null_table), the
\* final records, and its position (epc: "scoring", then "done").
VARIABLES call, pool, null_table, records, epc

engineVars == <<call, pool, null_table, records, epc>>

\* A call of one of the other functions on its own: which function (callee),
\* its arguments (given), what it returned, and its position (cpc: "call",
\* then "returned").
VARIABLES callee, given, returned, cpc

callVars == <<callee, given, returned, cpc>>

vars == <<runVars, metricVars, engineVars, callVars>>

\* What a step of a run, of a call of calculate_metric, of the engine and of
\* another function leaves alone.
notRunVars == <<metricVars, engineVars, callVars>>
notMetricVars == <<runVars, engineVars, callVars>>
notEngineVars == <<runVars, metricVars, callVars>>
notCallVars == <<runVars, metricVars, engineVars>>

\* No direct call of calculate_metric is in progress.
NoMetricCall ==
    /\ df = <<>> /\ method = "" /\ pos = "" /\ neg = "" /\ classes = <<>>
    /\ ascending = FALSE /\ mpc = "idle" /\ ser_ind = <<>> /\ ser = <<>>

\* The engine is not at work.
NoEngine ==
    /\ call = <<>> /\ pool = <<>> /\ null_table = <<>> /\ records = <<>>
    /\ epc = "idle"

\* No other function is being called on its own.
NoCall ==
    /\ callee = "" /\ given = <<>> /\ returned = <<>> /\ cpc = "idle"

\* ------------------------------------------------ inputs of the runs
\* Metric names given to GSEA: a supported one, an upper-case spelling of a
\* supported one, and a name of no metric.
RunMethodNames == {"signal_to_noise", "S2N", "pearson"}
PermutationTypes == {"phenotype", "gene_set", "sample"}
Sizes == {1, 2}
PermutationArgs == {-1, 0, 2}

\* Class labels: blocks of "A", "B" and "C" samples of these sizes.
GroupSizes == {0, 2, 3}
Repeat(x, n) == [i \in 1..n |-> x]
LabelVec(c) == Repeat("A", c[1]) \o Repeat("B", c[2]) \o Repeat("C", c[3])
ClassInputs ==
    {[kind |-> k, labels |-> LabelVec(c)] :
        k \in {"dict", "list"},
        c \in {c \in [1..3 -> GroupSizes] :
                  (c[1] = 0 => c[2] = 0) /\ (c[2] = 0 => c[3] = 0)}}

\* Expression tables for a class vector, cells in unit 1: up to MaxGenes rows,
\* gene names that may repeat, and rows that are flat (all 0) or vary inside the first class
\* (0, 1, 2, ... over its samples and 0 elsewhere).
FlatRow(labels) == [j \in DOMAIN labels |-> 0]
RampRow(labels) ==
    [j \in DOMAIN labels |->
        IF labels[j] = labels[1]
        THEN Cardinality({i \in 1..(j - 1) : labels[i] = labels[j]})
        ELSE 0]
GeneNames == {GeneName(i) : i \in 1..MaxGenes}
DataTables(labels) ==
    {[ncols |-> Len(labels), unit |-> "1", rows |-> rows] :
        rows \in UNION {[1..n -> [gene : GeneNames,
                                  vals : {FlatRow(labels), RampRow(labels)}]] :
                           n \in 0..MaxGenes}}

\* Tables whose number of numeric columns is not the number of labels: one
\* column more (a numeric description column first), two more, one fewer.
\* Their rows are the genes g1, g2, ... in order, each varying inside the
\* first class.
ResizeRow(labels, width) ==
    CASE width = Len(labels) + 1 ->
             [j \in 1..width |-> IF j = 1 THEN 0 ELSE RampRow(labels)[j - 1]]
      [] OTHER ->
             [j \in 1..width |-> IF j <= Len(labels) THEN RampRow(labels)[j] ELSE 0]
OtherWidths(labels) == {Len(labels) + 1, Len(labels) + 2, Len(labels) - 1}
OtherWidthTables(labels) ==
    {[ncols |-> w, unit |-> "1",
      rows |-> [i \in 1..n |-> [gene |-> GeneName(i), vals |-> ResizeRow(labels, w)]]] :
        w \in OtherWidths(labels), n \in 0..MaxGenes}

\* Tables whose genes g1, g2, ... differ in their metric: the odd ones vary
\* inside the first class, the even ones inside the other samples.
MirrorRow(labels) ==
    [j \in DOMAIN labels |->
        IF labels[j] # labels[1]
        THEN Cardinality({i \in 1..(j - 1) : labels[i] = labels[j]})
        ELSE 0]
MixedTables(labels) ==
    {[ncols |-> Len(labels), unit |-> "1",
      rows |-> [i \in 1..n |->
                   [gene |-> GeneName(i),
                    vals |-> IF i % 2 = 1 THEN RampRow(labels) ELSE MirrorRow(labels)]]] :
        n \in 1..MaxGenes}

\* Ranking tables (one score column): up to MaxGenes rows, gene names that may
\* repeat, scores 1 or 2.
RankTables ==
    UNION {[1..n -> [gene : GeneNames, score : {RInt(1), RInt(2)}]] : n \in 0..MaxGenes}

\* Gene set collections: two terms over the first two genes.
Terms == {"T1", "T2"}
GeneSetInputs == [Terms -> SUBSET {GeneName(1), GeneName(2)}]

NoLocals ==
    [method |-> None, cls_vector |-> None, dat |-> <<>>, offset |-> "",
     cls_dict |-> <<>>, gmt |-> <<>>, gsum |-> None]

NewObject(module) ==
    [module |-> module, method |-> "", permutation_type |-> "gene_set",
     min_size |-> 1, max_size |-> 1, permutation_num |-> None,
     ascending |-> FALSE, threads |-> 1, seed |-> 123,
     sample_norm_method |-> "", pheno_pos |-> "", pheno_neg |-> "",
     ranking |-> None, results |-> None]

\* ascending as given to GSEA: run reads it in gene_set mode only.
AscendingArgs(pt) == IF pt = "gene_set" THEN BOOLEAN ELSE {FALSE}

\* GSEA.__init__
InitGsea ==
    /\ \E m \in RunMethodNames, pt \in PermutationTypes, lo \in Sizes, hi \in Sizes,
          n \in PermutationArgs, asc \in BOOLEAN :
          /\ asc \in AscendingArgs(pt)
          /\ self =
                 [NewObject("gsea") EXCEPT
                     !.method = m, !.permutation_type = pt, !.ascending = asc,
                     !.min_size = lo, !.max_size = hi,
                     !.permutation_num = Some(ClampPermutationNum(n)),
                     !.pheno_pos = "pos", !.pheno_neg = "neg"]
    /\ inputs = [classes |-> None, data |-> None, gene_sets |-> None]
    /\ loc = NoLocals
    /\ pc = "check_method"
    /\ err = ""
    /\ events = <<>>
    /\ engine_call = None

Fail(where) ==
    /\ pc' = "failed"
    /\ err' = where

\* GSEA.run, lines 238-252: the metric of the lower-cased name, or raise.
GseaCheckMethod ==
    /\ self.module = "gsea" /\ pc = "check_method"
    /\ LET metric == RunMetric(Lower(self.method))
       IN  IF metric = None
           THEN Fail("method") /\ UNCHANGED loc
           ELSE /\ loc' = [loc EXCEPT !.method = metric]
                /\ pc' = "asserts"
                /\ UNCHANGED err
    /\ UNCHANGED <<self, inputs, events, engine_call>>
    /\ UNCHANGED notRunVars

\* GSEA.run, lines 254-255.
GseaAsserts ==
    /\ self.module = "gsea" /\ pc = "asserts"
    /\ IF self.permutation_type \in {"phenotype", "gene_set"}
          /\ self.min_size <= self.max_size
       THEN pc' = "load_classes" /\ UNCHANGED err
       ELSE Fail("assert")
    /\ UNCHANGED <<self, inputs, loc, events, engine_call>>
    /\ UNCHANGED notRunVars

\* GSEA.run, line 260: cls_vector = self.load_classes().
GseaLoadClasses ==
    /\ self.module = "gsea" /\ pc = "load_classes"
    /\ \E c \in ClassInputs :
          LET r == LoadClasses(c, self.pheno_pos, self.pheno_neg)
          IN  /\ inputs' = [inputs EXCEPT !.classes = Some(c)]
              /\ self' = [self EXCEPT !.pheno_pos = r.pheno_pos,
                                      !.pheno_neg = r.pheno_neg]
              /\ loc' = [loc EXCEPT !.cls_vector = r.cls_vector]
              /\ IF r.raised THEN Fail("load_classes")
                 ELSE pc' = "load_data" /\ UNCHANGED err
    /\ events' = Append(events, "load_classes")
    /\ UNCHANGED engine_call
    /\ UNCHANGED notRunVars

\* The tables self.data may hold for the class vector of the run.
GseaDataInputs ==
    IF loc.cls_vector = None THEN DataTables(LabelVec(<<3, 3, 0>>))
    ELSE DataTables(The(loc.cls_vector)) \cup OtherWidthTables(The(loc.cls_vector))
             \cup MixedTables(The(loc.cls_vector))

\* GSEA.run, lines 262-265: load_data(cls_vector), which raises TypeError at
\* len(cls_vec) when cls_vector is None, then assert len(dat) > 1.
GseaLoadData ==
    /\ self.module = "gsea" /\ pc = "load_data"
    /\ \E t \in GseaDataInputs :
          /\ inputs' = [inputs EXCEPT !.data = Some(t)]
          /\ IF loc.cls_vector = None
             THEN Fail("load_data") /\ UNCHANGED loc
             ELSE LET r == LoadData(t, The(loc.cls_vector))
                  IN  /\ loc' = [loc EXCEPT !.dat = r.dat, !.offset = r.offset,
                                            !.cls_dict = r.cls_dict]
                      /\ IF Len(r.dat) > 1
                         THEN pc' = "load_gmt" /\ UNCHANGED err
                         ELSE Fail("assert_len")
    /\ events' = Append(events, "load_data")
    /\ UNCHANGED <<self, engine_call>>
    /\ UNCHANGED notRunVars

\* The gene_list argument of load_gmt in GSEA.run: dat.index.values.
GseaGeneList == GenesOf(loc.dat)

\* GSEA.run, lines 267-268.
GseaLoadGmt ==
    /\ self.module = "gsea" /\ pc = "load_gmt"
    /\ \E g \in GeneSetInputs :
          /\ inputs' = [inputs EXCEPT !.gene_sets = Some(g)]
          /\ loc' = [loc EXCEPT
                        !.gmt = LoadGmt(GseaGeneList, g, self.min_size, self.max_size)]
    /\ pc' = "score"
    /\ events' = Append(events, "load_gmt")
    /\ UNCHANGED <<self, err, engine_call>>
    /\ UNCHANGED notRunVars

\* permutation_num and threads handed to the engine in each other's place.
EngineArgsPermAsThreads(fn, genes) ==
    [fn |-> fn, genes |-> genes, gmt |-> loc.gmt,
     min_size |-> self.min_size, max_size |-> self.max_size,
     permutation_num |-> self.threads,
     threads |-> The(self.permutation_num), seed |-> self.seed]

\* The arguments every run hands the engine after the data: the gene sets,
\* the size limits, then permutation_num, threads and seed, in this order.
EngineArgs(fn, genes) ==
    [fn |-> fn, genes |-> genes, gmt |-> loc.gmt,
     min_size |-> self.min_size, max_size |-> self.max_size,
     permutation_num |-> The(self.permutation_num),
     threads |-> self.threads, seed |-> self.seed]

\* The engine invoked for one gene set of args.gmt only, the others left for
\* a later call.
InvokeEnginePerSet(args, rankings0, indices0, next) ==
    LET first == IF DOMAIN args.gmt = {} THEN {}
                 ELSE {CHOOSE t \in DOMAIN args.gmt : TRUE}
        part == [t \in first |-> args.gmt[t]]
        sums == EngineSummaries({args.genes[i] : i \in DOMAIN args.genes},
                                part, args.permutation_num)
    IN  /\ engine_call' = Some([args EXCEPT !.gmt = part])
        /\ IF sums = None
           THEN Fail("engine") /\ UNCHANGED loc
           ELSE /\ loc' = [loc EXCEPT !.gsum = Some([summaries |-> The(sums),
                                                     rankings0 |-> rankings0,
                                                     indices0 |-> indices0])]
                /\ pc' = next
                /\ UNCHANGED err

\* The engine is invoked with args; rankings0 and indices0 are what it
\* returns as gsum.rankings[0] and gsum.indices[0].
InvokeEngine(args, rankings0, indices0, next) ==
    LET sums == EngineSummaries({args.genes[i] : i \in DOMAIN args.genes},
                                args.gmt, args.permutation_num)
    IN  /\ engine_call' = Some(args)
        /\ IF sums = None
           THEN Fail("engine") /\ UNCHANGED loc
           ELSE /\ loc' = [loc EXCEPT !.gsum = Some([summaries |-> The(sums),
                                                     rankings0 |-> rankings0,
                                                     indices0 |-> indices0])]
                /\ pc' = next
                /\ UNCHANGED err

\* The metric name gsea_rs ranks by for a Metric.
MetricNameOf(metric) ==
    CASE metric = "Signal2Noise" -> "signal_to_noise"
      [] metric = "AbsSignal2Noise" -> "abs_signal_to_noise"
      [] metric = "Ttest" -> "t_test"
      [] metric = "RatioOfClasses" -> "ratio_of_classes"
      [] metric = "DiffOfClasses" -> "diff_of_classes"
      [] metric = "Log2RatioOfClasses" -> "log2_ratio_of_classes"

\* GSEA.run, lines 302-304: True at the samples labelled pheno_pos.
GroupVector(cls_vector, pheno_pos) ==
    [j \in DOMAIN cls_vector |-> cls_vector[j] = pheno_pos]

\* GSEA.run, lines 275-300: gene_set permutation. calculate_metric is called
\* with self.method as given, then prerank_rs with the ranked genes.
GseaScoreGeneSet ==
    /\ self.module = "gsea" /\ pc = "score"
    /\ self.permutation_type = "gene_set"
    /\ IF ~MetricSupported(self.method)
       THEN /\ Fail("calculate_metric")
            /\ events' = Append(events, "calculate_metric")
            /\ UNCHANGED <<loc, engine_call>>
       ELSE \E r \in CalculateMetric(loc.dat, self.method, self.pheno_pos,
                                     self.pheno_neg, loc.cls_dict, self.ascending) :
                /\ InvokeEngine(EngineArgs("prerank_rs", IndexOf(r.ser)),
                                [i \in DOMAIN r.ser |-> r.ser[i].score],
                                r.ser_ind, "report")
                /\ events' = events \o <<"calculate_metric", "engine">>
    /\ UNCHANGED <<self, inputs>>
    /\ UNCHANGED notRunVars

\* GSEA.run, lines 301-317: phenotype permutation. gsea_rs ranks the genes
\* itself, by the Metric and the group vector.
GseaScorePhenotype ==
    /\ self.module = "gsea" /\ pc = "score"
    /\ self.permutation_type # "gene_set"
    /\ LET group == GroupVector(The(loc.cls_vector), self.pheno_pos)
       IN  \E r \in CalculateMetric(loc.dat, MetricNameOf(The(loc.method)),
                                    TRUE, FALSE, group, FALSE) :
               InvokeEngine(EngineArgs("gsea_rs", IndexOf(loc.dat)),
                            [i \in DOMAIN r.ser |-> r.ser[i].score],
                            r.ser_ind, "report")
    /\ events' = Append(events, "engine")
    /\ UNCHANGED <<self, inputs>>
    /\ UNCHANGED notRunVars

\* pd.Series(gsum.rankings[0], index=dat.index), the index left in the order
\* of dat.
RankingSeriesDatOrder(rows, gsum) ==
    [i \in DOMAIN gsum.indices0 |->
        [gene |-> rows[i].gene, score |-> gsum.rankings0[i]]]

\* pd.Series(gsum.rankings[0], index=dat.index[gsum.indices[0]])
RankingSeries(rows, gsum) ==
    [i \in DOMAIN gsum.indices0 |->
        [gene |-> rows[gsum.indices0[i]].gene, score |-> gsum.rankings0[i]]]

\* GSEA.run, lines 323-328: self.ranking, the heatmap, to_df.
GseaReport ==
    /\ self.module = "gsea" /\ pc = "report"
    /\ self' = [self EXCEPT
                   !.ranking = Some(RankingSeries(loc.dat, The(loc.gsum))),
                   !.results = Some(ToDf(The(loc.gsum).summaries))]
    /\ events' = Append(events, "to_df")
    /\ pc' = "done"
    /\ UNCHANGED <<inputs, loc, err, engine_call>>
    /\ UNCHANGED notRunVars

\* --------------------------------------------------------- Prerank.run
\* Prerank.__init__
InitPrerank ==
    /\ \E lo \in Sizes, hi \in Sizes, n \in PermutationArgs :
          self = [NewObject("prerank") EXCEPT
                     !.min_size = lo, !.max_size = hi,
                     !.permutation_num = Some(ClampPermutationNum(n)),
                     !.pheno_pos = "Pos", !.pheno_neg = "Neg"]
    /\ inputs = [classes |-> None, data |-> None, gene_sets |-> None]
    /\ loc = NoLocals
    /\ pc = "asserts"
    /\ err = ""
    /\ events = <<>>
    /\ engine_call = None

\* Prerank.run, line 426.
PrerankAsserts ==
    /\ self.module = "prerank" /\ pc = "asserts"
    /\ IF self.min_size <= self.max_size
       THEN pc' = "load_data" /\ UNCHANGED err
       ELSE Fail("assert")
    /\ UNCHANGED <<self, inputs, loc, events, engine_call>>
    /\ UNCHANGED notRunVars

\* A number in a ranking frame; the other cells are NaN, PInf and NInf.
Num(x) == [k |-> "num", x |-> x]

\* A ranking table as a one-column frame of cells.
FrameOf(t) == [i \in DOMAIN t |-> [gene |-> t[i].gene, score |-> Num(t[i].score)]]

\* ranking.dropna(how="all") followed by ranking.fillna(0), lines 393-394:
\* in a one-column frame every row holding a NaN is a row of nothing but NaN.
RECURSIVE DropAllNaRows(_)
DropAllNaRows(rnk) ==
    IF rnk = <<>> THEN <<>>
    ELSE IF Head(rnk).score.k = "nan"
         THEN DropAllNaRows(Tail(rnk))
         ELSE <<Head(rnk)>> \o DropAllNaRows(Tail(rnk))
FillNa(rnk) ==
    [i \in DOMAIN rnk |->
        IF rnk[i].score.k = "nan" THEN [rnk[i] EXCEPT !.score = Num(RZero)] ELSE rnk[i]]

\* ranking[np.isfinite(ranking)].max() and .min(), lines 403-404: the largest
\* and the smallest finite value of the column, NaN when it has none.
FiniteCells(rnk) == {rnk[i].score : i \in {j \in DOMAIN rnk : rnk[j].score.k = "num"}}
ColumnMax(rnk) ==
    IF FiniteCells(rnk) = {} THEN NaN
    ELSE CHOOSE m \in FiniteCells(rnk) : \A c \in FiniteCells(rnk) : ~RLess(m.x, c.x)
ColumnMin(rnk) ==
    IF FiniteCells(rnk) = {} THEN NaN
    ELSE CHOOSE m \in FiniteCells(rnk) : \A c \in FiniteCells(rnk) : ~RLess(c.x, m.x)

\* ranking.replace({col: {inf: max, -inf: min}}), line 406.
ReplaceInf(rnk) ==
    [i \in DOMAIN rnk |->
        CASE rnk[i].score.k = "pinf" -> [rnk[i] EXCEPT !.score = ColumnMax(rnk)]
          [] rnk[i].score.k = "ninf" -> [rnk[i] EXCEPT !.score = ColumnMin(rnk)]
          [] OTHER -> rnk[i]]

\* Prerank.load_ranking for a one-column DataFrame, lines 380-420: rows of
\* NaN are dropped (when the frame holds a NaN), the first row of each gene
\* is kept, and infinite cells are replaced (when the frame holds one).
LoadRanking(rnk) ==
    LET hasna == \E i \in DOMAIN rnk : rnk[i].score.k = "nan"
        a == IF hasna THEN FillNa(DropAllNaRows(rnk)) ELSE rnk
        b == DropDuplicates(a)
        hasinf == \E i \in DOMAIN b : b[i].score.k \in {"pinf", "ninf"}
    IN  IF hasinf THEN ReplaceInf(b) ELSE b

\* Prerank.run, lines 429-431.
PrerankLoadRanking ==
    /\ self.module = "prerank" /\ pc = "load_data"
    /\ \E t \in RankTables :
          LET dat2 == LoadRanking(FrameOf(t))
          IN  /\ inputs' = [inputs EXCEPT !.data = Some(t)]
              /\ loc' = [loc EXCEPT !.dat = dat2]
              /\ IF Len(dat2) > 1
                 THEN /\ self' = [self EXCEPT !.ranking = Some(dat2)]
                      /\ pc' = "load_gmt"
                      /\ UNCHANGED err
                 ELSE Fail("assert_len") /\ UNCHANGED self
    /\ events' = Append(events, "load_data")
    /\ UNCHANGED engine_call
    /\ UNCHANGED notRunVars

\* The gene_list argument of load_gmt in Prerank.run: dat2.index.values.
PrerankGeneList == GenesOf(loc.dat)

\* Prerank.run, lines 435-436.
PrerankLoadGmt ==
    /\ self.module = "prerank" /\ pc = "load_gmt"
    /\ \E g \in GeneSetInputs :
          /\ inputs' = [inputs EXCEPT !.gene_sets = Some(g)]
          /\ loc' = [loc EXCEPT
                        !.gmt = LoadGmt(PrerankGeneList, g, self.min_size, self.max_size)]
    /\ pc' = "score"
    /\ events' = Append(events, "load_gmt")
    /\ UNCHANGED <<self, err, engine_call>>
    /\ UNCHANGED notRunVars

\* Prerank.run, lines 442-457: prerank2d_rs for a DataFrame.
PrerankScore ==
    /\ self.module = "prerank" /\ pc = "score"
    /\ InvokeEngine(EngineArgs("prerank2d_rs", IndexOf(loc.dat)),
                    [i \in DOMAIN loc.dat |-> loc.dat[i].score.x],
                    [i \in DOMAIN loc.dat |-> i], "report")
    /\ events' = Append(events, "engine")
    /\ UNCHANGED <<self, inputs>>
    /\ UNCHANGED notRunVars

\* Prerank.run, lines 458-463.
PrerankReport ==
    /\ self.module = "prerank" /\ pc = "report"
    /\ self' = [self EXCEPT !.results = Some(ToDf(The(loc.gsum).summaries))]
    /\ events' = Append(events, "to_df")
    /\ pc' = "done"
    /\ UNCHANGED <<inputs, loc, err, engine_call>>
    /\ UNCHANGED notRunVars

\* ------------------------------------------------ SingleSampleGSEA.run
\* permutation_num as given to SingleSampleGSEA: None or an int.
SsgseaPermutationArgs == {None} \cup {Some(n) : n \in PermutationArgs}
SampleNormMethods == {"rank", "custom", "zscore"}

\* SingleSampleGSEA.__init__
InitSsgsea ==
    /\ \E lo \in Sizes, hi \in Sizes, n \in SsgseaPermutationArgs,
          nm \in SampleNormMethods :
          self = [NewObject("ssgsea") EXCEPT
                     !.min_size = lo, !.max_size = hi,
                     !.permutation_num = SsgseaPermutationNum(n),
                     !.sample_norm_method = nm]
    /\ inputs = [classes |-> None, data |-> None, gene_sets |-> None]
    /\ loc = NoLocals
    /\ pc = "load_data"
    /\ err = ""
    /\ events = <<>>
    /\ engine_call = None

\* rank_metric.groupby(level=0).mean(): one row per gene, the genes in sorted
\* order, the score the mean of the gene's rows.
RECURSIVE SumScores(_, _)
SumScores(rows, S) ==
    IF S = {} THEN RZero
    ELSE LET i == CHOOSE x \in S : TRUE
         IN  RAdd(rows[i].score, SumScores(rows, S \ {i}))

GroupbyMean(rows) ==
    LET ids == {i \in 1..MaxGenes : GeneName(i) \in GenesOf(rows)}
        nth(k) == CHOOSE i \in ids : Cardinality({j \in ids : j < i}) = k - 1
        of(g) == {i \in DOMAIN rows : rows[i].gene = g}
    IN  [k \in 1..Cardinality(ids) |->
            [gene |-> GeneName(nth(k)),
             score |-> RDiv(SumScores(rows, of(GeneName(nth(k)))),
                            RInt(Cardinality(of(GeneName(nth(k))))))]]

\* SingleSampleGSEA.load_data for a one-sample table without missing values.
SsgseaLoadDataOf(rows) ==
    IF Cardinality(GenesOf(rows)) < Len(rows) THEN GroupbyMean(rows) ELSE rows

\* dat.rank(axis=0, method="average"): ties share the mean of their ranks.
AverageRank(rows, i) ==
    LET less == Cardinality({j \in DOMAIN rows : RLess(rows[j].score, rows[i].score)})
        same == Cardinality({j \in DOMAIN rows : rows[j].score = rows[i].score})
    IN  Rat(2 * less + same + 1, 2)

\* 10000 * data / data.shape[0] for the rank of row i.
ScaledRank(rows, i) == RDiv(RMul(RInt(10000), AverageRank(rows, i)), RInt(Len(rows)))

\* np.log(x + np.exp(1)), kept as a term.
LogPlusE(x) == [k |-> "log", arg |-> x]

\* dat[dat < 1] = 1: the table norm_samples was given, after the assignment.
ClipBelowOne(rows) ==
    [i \in DOMAIN rows |->
        IF RLess(rows[i].score, RInt(1)) THEN [rows[i] EXCEPT !.score = RInt(1)]
        ELSE rows[i]]

\* The methods norm_samples has a branch for.
NormSupported(norm) == norm \in {"rank", "log_rank", "log", "custom"}

\* SingleSampleGSEA.norm_samples: the table it returns for a supported method.
NormSamples(rows, norm) ==
    CASE norm = "rank" ->
             [i \in DOMAIN rows |->
                 [gene |-> rows[i].gene, score |-> ScaledRank(rows, i)]]
      [] norm = "log_rank" ->
             [i \in DOMAIN rows |->
                 [gene |-> rows[i].gene, score |-> LogPlusE(ScaledRank(rows, i))]]
      [] norm = "log" ->
             [i \in DOMAIN rows |->
                 [gene |-> rows[i].gene, score |-> LogPlusE(ClipBelowOne(rows)[i].score)]]
      [] OTHER -> rows

\* SingleSampleGSEA.run, lines 621-626: None becomes 0, the data is loaded.
SsgseaLoadData ==
    /\ self.module = "ssgsea" /\ pc = "load_data"
    /\ self' = [self EXCEPT
                   !.permutation_num = IF @ = None THEN Some(0) ELSE @]
    /\ \E t \in RankTables :
          /\ inputs' = [inputs EXCEPT !.data = Some(t)]
          /\ loc' = [loc EXCEPT !.dat = SsgseaLoadDataOf(t)]
    /\ pc' = "norm_samples"
    /\ events' = Append(events, "load_data")
    /\ UNCHANGED <<err, engine_call>>
    /\ UNCHANGED notRunVars

\* SingleSampleGSEA.run, lines 627-629: norm_samples, which raises for a
\* method it does not support, then self.ranking.
SsgseaNormSamples ==
    /\ self.module = "ssgsea" /\ pc = "norm_samples"
    /\ IF self.sample_norm_method \in {"rank", "custom"}
       THEN LET normdat == NormSamples(loc.dat, self.sample_norm_method)
            IN  /\ loc' = [loc EXCEPT !.dat = normdat]
                /\ self' = [self EXCEPT !.ranking = Some(normdat)]
                /\ pc' = "load_gmt"
                /\ UNCHANGED err
       ELSE Fail("norm_samples") /\ UNCHANGED <<self, loc>>
    /\ UNCHANGED <<inputs, events, engine_call>>
    /\ UNCHANGED notRunVars

\* gene_list of SingleSampleGSEA.run replaced by every gene name there is.
SsgseaGeneListAll == GeneNames

\* The gene_list argument of load_gmt in SingleSampleGSEA.run.
SsgseaGeneList == GenesOf(loc.dat)

\* SingleSampleGSEA.run, lines 630-632.
SsgseaLoadGmt ==
    /\ self.module = "ssgsea" /\ pc = "load_gmt"
    /\ \E g \in GeneSetInputs :
          /\ inputs' = [inputs EXCEPT !.gene_sets = Some(g)]
          /\ loc' = [loc EXCEPT
                        !.gmt = LoadGmt(SsgseaGeneList, g, self.min_size, self.max_size)]
    /\ pc' = "score"
    /\ events' = Append(events, "load_gmt")
    /\ UNCHANGED <<self, err, engine_call>>
    /\ UNCHANGED notRunVars

\* SingleSampleGSEA.runSamplesPermu, lines 649-663: the size assertion, then
\* ssgsea_rs.
SsgseaScore ==
    /\ self.module = "ssgsea" /\ pc = "score"
    /\ IF self.min_size <= self.max_size
       THEN /\ InvokeEngine(EngineArgs("ssgsea_rs", IndexOf(loc.dat)),
                            [i \in DOMAIN loc.dat |-> loc.dat[i].score],
                            [i \in DOMAIN loc.dat |-> i], "report")
            /\ events' = Append(events, "engine")
       ELSE Fail("assert") /\ UNCHANGED <<loc, events, engine_call>>
    /\ UNCHANGED <<self, inputs>>
    /\ UNCHANGED notRunVars

\* SingleSampleGSEA.runSamplesPermu, line 664.
SsgseaReport ==
    /\ self.module = "ssgsea" /\ pc = "report"
    /\ self' = [self EXCEPT !.results = Some(ToDf(The(loc.gsum).summaries))]
    /\ events' = Append(events, "to_df")
    /\ pc' = "done"
    /\ UNCHANGED <<inputs, loc, err, engine_call>>
    /\ UNCHANGED notRunVars

\* No run is in progress (the state of the run variables during a direct
\* call of calculate_metric).
NoRun ==
    /\ self = NewObject("")
    /\ inputs = [classes |-> None, data |-> None, gene_sets |-> None]
    /\ loc = NoLocals
    /\ pc = "idle"
    /\ err = ""
    /\ events = <<>>
    /\ engine_call = None

\* ------------------------------------- a call of GSEA.calculate_metric
\* Metric names a caller may pass: the eight names calculate_metric knows,
\* an upper-case spelling and a name of no metric.
MethodNames ==
    S2NNames \cup AbsS2NNames
        \cup {"t_test", "ratio_of_classes", "diff_of_classes", "log2_ratio_of_classes"}
        \cup {"S2N", "pearson"}

\* Tables of 1..MaxGenes genes named g1, g2, ... with rows of RowPool(lay).
Tables(lay) ==
    UNION {{[i \in 1..n |-> [gene |-> GeneName(i), vals |-> rows[i]]] :
               rows \in [1..n -> RowPool(lay)]} : n \in 1..MaxGenes}

InitMetric ==
    /\ \E lay \in Layouts : classes = lay.classes /\ df \in Tables(lay)
    /\ method \in MethodNames
    /\ \E c \in {"A", "B"} : pos = c /\ neg = (IF c = "A" THEN "B" ELSE "A")
    /\ ascending \in BOOLEAN
    /\ mpc = "call"
    /\ ser_ind = <<>>
    /\ ser = <<>>
    /\ NoRun
    /\ NoEngine
    /\ NoCall

\* calculate_metric returns: the scores, argsort, reorder, reverse.
MetricReturn ==
    /\ mpc = "call"
    /\ MetricSupported(method)
    /\ \E r \in CalculateMetric(df, method, pos, neg, classes, ascending) :
          /\ ser_ind' = r.ser_ind
          /\ ser' = r.ser
    /\ mpc' = "returned"
    /\ UNCHANGED <<df, method, pos, neg, classes, ascending>>
    /\ UNCHANGED notMetricVars

\* calculate_metric raises LookupError (the else branch).
MetricRaise ==
    /\ mpc = "call"
    /\ ~MetricSupported(method)
    /\ mpc' = "raised"
    /\ UNCHANGED <<df, method, pos, neg, classes, ascending, ser_ind, ser>>
    /\ UNCHANGED notMetricVars

NextMetric == MetricReturn \/ MetricRaise

SpecMetric == InitMetric /\ [][NextMetric]_vars

\* ------------------------------------------- the permutation workers
MaxPerm == 2
MaxThreads == 2
Seeds == {7, 123}

\* The cells of the null score table: (permutation index, gene set).
Cells(c) == (0..(c.permutation_num - 1)) \X c.terms

\* One stream shared by the workers: the draw depends on how many were made.
DrawSharedStream(seed, k, t, nth) == <<"rng", seed, nth>>

\* The random draw for permutation k of gene set t, made as the nth draw of
\* the call: the generator of a permutation is seeded from (seed, k), so the
\* draw depends on seed and k and on nothing else.
Draw(seed, k, t, nth) == <<"rng", seed, k>>

\* The null score a draw gives a gene set.
NullScore(t, draw) == <<"es", t, draw>>

\* The records the normalizer makes of the complete null table.
Normalize(c, table) ==
    [t \in c.terms |->
        [term |-> t,
         null |-> [k \in 0..(c.permutation_num - 1) |-> The(table[<<k, t>>])]]]

InitEngine ==
    /\ \E sd \in Seeds, th \in 1..MaxThreads, n \in 0..MaxPerm,
          ts \in SUBSET Terms :
          call = [seed |-> sd, threads |-> th, permutation_num |-> n, terms |-> ts]
    /\ pool = [w \in 1..call.threads |-> None]
    /\ null_table = [c \in Cells(call) |-> None]
    /\ records = <<>>
    /\ epc = "scoring"
    /\ NoRun
    /\ NoMetricCall
    /\ NoCall

\* An idle worker takes a cell nobody has taken.
WorkerTake ==
    /\ epc = "scoring"
    /\ \E w \in DOMAIN pool, c \in Cells(call) :
          /\ pool[w] = None
          /\ null_table[c] = None
          /\ \A v \in DOMAIN pool : pool[v] # Some(c)
          /\ pool' = [pool EXCEPT ![w] = Some(c)]
    /\ UNCHANGED <<call, null_table, records, epc>>
    /\ UNCHANGED notEngineVars

\* A worker writes the null score of its cell.
WorkerWrite ==
    /\ epc = "scoring"
    /\ \E w \in DOMAIN pool :
          /\ pool[w] # None
          /\ LET c == The(pool[w])
                 nth == Cardinality({d \in Cells(call) : null_table[d] # None})
             IN  null_table' =
                     [null_table EXCEPT
                         ![c] = Some(NullScore(c[2], Draw(call.seed, c[1], c[2], nth)))]
          /\ pool' = [pool EXCEPT ![w] = None]
    /\ UNCHANGED <<call, records, epc>>
    /\ UNCHANGED notEngineVars

\* The join: every cell is written, the normalizer makes the records.
EngineJoin ==
    /\ epc = "scoring"
    /\ \A c \in Cells(call) : null_table[c] # None
    /\ records' = Normalize(call, null_table)
    /\ epc' = "done"
    /\ UNCHANGED <<call, pool, null_table>>
    /\ UNCHANGED notEngineVars

NextEngine == WorkerTake \/ WorkerWrite \/ EngineJoin

\* --------------------------------------------- the enrichment score
MaxRank == 5

RAbs(a) == IF RSign(a) < 0 THEN RSub(RZero, a) ELSE a

\* |score|^p for the weights 0 and 1.
AbsPow(score, p) == IF p = 0 THEN 1 ELSE AbsI(score)

\* The positions (1-based) of the ranking whose gene is in the gene set.
HitPositions(ranking, gene_set) ==
    {i \in DOMAIN ranking : ranking[i].gene \in gene_set}

\* hit_indices counted from 1 (the positions as the ranking is indexed here).
HitIndicesFromOne(ranking, gene_set) ==
    LET F[i \in 0..Len(ranking)] ==
            IF i = 0 THEN <<>>
            ELSE IF ranking[i].gene \in gene_set THEN Append(F[i - 1], i)
            ELSE F[i - 1]
    IN  F[Len(ranking)]

\* hit_indices: the 0-indexed positions of the members, in ranking order.
HitIndices(ranking, gene_set) ==
    LET F[i \in 0..Len(ranking)] ==
            IF i = 0 THEN <<>>
            ELSE IF ranking[i].gene \in gene_set THEN Append(F[i - 1], i - 1)
            ELSE F[i - 1]
    IN  F[Len(ranking)]

\* The sum of |score|^p over the member genes.
HitWeightSum(ranking, gene_set, p) ==
    LET F[i \in 0..Len(ranking)] ==
            IF i = 0 THEN 0
            ELSE F[i - 1] + (IF ranking[i].gene \in gene_set
                             THEN AbsPow(ranking[i].score, p) ELSE 0)
    IN  F[Len(ranking)]

\* The running sum RES: |score|^p / sum at a hit, -1 / (L - |members|) at a
\* miss.
RunningSum(ranking, gene_set, p) ==
    LET hits == HitPositions(ranking, gene_set)
        total == HitWeightSum(ranking, gene_set, p)
        misses == Len(ranking) - Cardinality(hits)
        F[i \in 0..Len(ranking)] ==
            IF i = 0 THEN <<>>
            ELSE LET before == IF i = 1 THEN RZero ELSE F[i - 1][i - 1]
                     step == IF i \in hits
                             THEN Rat(AbsPow(ranking[i].score, p), total)
                             ELSE Rat(-1, misses)
                 IN  Append(F[i - 1], RAdd(before, step))
    IN  F[Len(ranking)]

\* The position of the value of largest magnitude, the last one on ties.
LastArgMaxAbs(res) ==
    LET F[i \in 1..Len(res)] ==
            IF i = 1 THEN 1
            ELSE IF RLess(RAbs(res[i]), RAbs(res[F[i - 1]])) THEN F[i - 1]
            ELSE i
    IN  F[Len(res)]

\* The position of the value of largest magnitude, the first one on ties.
ArgMaxAbs(res) ==
    LET F[i \in 1..Len(res)] ==
            IF i = 1 THEN 1
            ELSE IF RLess(RAbs(res[F[i - 1]]), RAbs(res[i])) THEN i
            ELSE F[i - 1]
    IN  F[Len(res)]

\* The enrichment score of a gene set with a member in the ranking.
EnrichmentScore(ranking, gene_set, p) ==
    LET res == RunningSum(ranking, gene_set, p)
    IN  [es |-> res[ArgMaxAbs(res)],
         hit_indices |-> HitIndices(ranking, gene_set),
         RES |-> res]

\* Rankings: 1..MaxRank genes g1, g2, ... with non-zero scores in
\* non-increasing order.
ScoreValues == {2, 1, -1, -2}
Rankings ==
    UNION {{[i \in 1..n |-> [gene |-> GeneName(i), score |-> sc[i]]] :
               sc \in {f \in [1..n -> ScoreValues] :
                          \A i \in 1..(n - 1) : f[i] >= f[i + 1]}} :
           n \in 1..MaxRank}

\* Gene sets over the genes of a ranking and one gene (g0) that is in none.
GeneSetsFor(ranking) == SUBSET ({GeneName(0)} \cup GenesOf(ranking))

\* Replot.run: enrichment_score(gene_list, correl_vector, gene_set, weight,
\* nperm=0) on the ranking read from the .rnk file.
InitEnrichmentScore ==
    /\ callee = "enrichment_score"
    /\ \E r \in Rankings, p \in {0, 1} :
          \E gs \in GeneSetsFor(r) :
              given = [ranking |-> r, gene_set |-> gs, weight |-> p]
    /\ returned = <<>>
    /\ cpc = "call"
    /\ NoRun /\ NoMetricCall /\ NoEngine

EnrichmentScoreReturn ==
    /\ callee = "enrichment_score" /\ cpc = "call"
    /\ HitPositions(given.ranking, given.gene_set) # {}
    /\ returned' = EnrichmentScore(given.ranking, given.gene_set, given.weight)
    /\ cpc' = "returned"
    /\ UNCHANGED <<callee, given>>
    /\ UNCHANGED notCallVars

\* No member of the gene set is in the ranking: EmptyIntersection.
EnrichmentScoreRaise ==
    /\ callee = "enrichment_score" /\ cpc = "call"
    /\ HitPositions(given.ranking, given.gene_set) = {}
    /\ cpc' = "raised"
    /\ UNCHANGED <<callee, given, returned>>
    /\ UNCHANGED notCallVars

NextEnrichmentScore == EnrichmentScoreReturn \/ EnrichmentScoreRaise

SpecEnrichmentScore == InitEnrichmentScore /\ [][NextEnrichmentScore]_vars

\* --------------------------------------------- the significance normalizer
MaxPool == 2

\* min(x, 1.0)
RMin1(x) == IF RLess(RInt(1), x) THEN RInt(1) ELSE x

\* How many values of a sequence are at least as extreme as v: >= v for
\* v >= 0, <= v for v < 0.
CountExtreme(values, v) ==
    Cardinality({i \in DOMAIN values :
                    IF v >= 0 THEN values[i] >= v ELSE values[i] <= v})

\* numerator / denominator of the FDR of a gene set whose NES is v:
\* (pooled null NES as extreme as v) / (size of the pool), over
\* (observed NES as extreme as v) / (number of gene sets).
FdrRatio(v, observed, null_pool) ==
    RDiv(Rat(CountExtreme(null_pool, v), Len(null_pool)),
         Rat(CountExtreme(observed, v), Len(observed)))

\* The ratio itself, without the cap.
FdrUncapped(v, observed, null_pool) ==
    IF null_pool = <<>> THEN None
    ELSE Some(FdrRatio(v, observed, null_pool))

\* FDR_g = min(numerator / denominator, 1.0); NaN (None) when the pool of
\* the sign of v is empty.
Fdr(v, observed, null_pool) ==
    IF null_pool = <<>> THEN None
    ELSE Some(RMin1(FdrRatio(v, observed, null_pool)))

\* The FDR of every gene set of the batch.
FdrOfBatch(observed, pos_pool, neg_pool) ==
    [g \in DOMAIN observed |->
        Fdr(observed[g], observed, IF observed[g] >= 0 THEN pos_pool ELSE neg_pool)]

\* Batches: the observed NES of one or two gene sets, and pools of up to
\* MaxPool positive and MaxPool negative null NES (in non-decreasing order).
NesValues == {-2, -1, 1, 2}
Pools(values) ==
    UNION {{f \in [1..n -> values] : \A i \in 1..(n - 1) : f[i] <= f[i + 1]} :
           n \in 0..MaxPool}

InitFdr ==
    /\ callee = "fdr"
    /\ \E obs \in [1..1 -> NesValues] \cup [1..2 -> NesValues],
          pp \in Pools({1, 2, 3}), np \in Pools({-3, -2, -1}) :
          given = [observed |-> obs, pos_pool |-> pp, neg_pool |-> np]
    /\ returned = <<>>
    /\ cpc = "call"
    /\ NoRun /\ NoMetricCall /\ NoEngine

FdrReturn ==
    /\ callee = "fdr" /\ cpc = "call"
    /\ returned' = FdrOfBatch(given.observed, given.pos_pool, given.neg_pool)
    /\ cpc' = "returned"
    /\ UNCHANGED <<callee, given>>
    /\ UNCHANGED notCallVars

SpecFdr == InitFdr /\ [][FdrReturn]_vars

\* ----------------------------------------- a call of Prerank.load_ranking
\* The cells of a ranking frame.
FrameCells == {NaN, PInf, NInf, Num(RInt(1)), Num(RInt(2))}

\* One-column frames as self._load_ranking hands them over: up to MaxGenes
\* rows, gene names that may repeat, cells that may be NaN or infinite.
RankFrames ==
    UNION {[1..n -> [gene : GeneNames, score : FrameCells]] : n \in 0..MaxGenes}

InitLoadRanking ==
    /\ callee = "load_ranking"
    /\ \E f \in RankFrames : given = [rnk |-> f]
    /\ returned = <<>>
    /\ cpc = "call"
    /\ NoRun /\ NoMetricCall /\ NoEngine

LoadRankingReturn ==
    /\ callee = "load_ranking" /\ cpc = "call"
    /\ returned' = LoadRanking(given.rnk)
    /\ cpc' = "returned"
    /\ UNCHANGED <<callee, given>>
    /\ UNCHANGED notCallVars

SpecLoadRanking == InitLoadRanking /\ [][LoadRankingReturn]_vars

\* ------------------------------------------- a call of GSEA.load_data
\* Class vectors of two groups of three samples, in blocks and alternating.
LoadDataLabels == {LabelVec(<<3, 3, 0>>), <<"A", "B", "A", "B", "A", "B">>}

\* The tables of DataTables with their cells in either unit.
LoadDataTables(labels) ==
    {[t EXCEPT !.unit = u] : t \in DataTables(labels), u \in Units}

InitLoadData ==
    /\ callee = "load_data"
    /\ \E labels \in LoadDataLabels :
          \E t \in LoadDataTables(labels) : given = [table |-> t, cls_vec |-> labels]
    /\ returned = <<>>
    /\ cpc = "call"
    /\ NoRun /\ NoMetricCall /\ NoEngine

LoadDataReturn ==
    /\ callee = "load_data" /\ cpc = "call"
    /\ returned' = LoadData(given.table, given.cls_vec)
    /\ cpc' = "returned"
    /\ UNCHANGED <<callee, given>>
    /\ UNCHANGED notCallVars

SpecLoadData == InitLoadData /\ [][LoadDataReturn]_vars

\* ---------------------- the caller's data object across load and normalize
\* The object the caller passed as data: a DataFrame or a Series, its name
\* (a Series may have none, a DataFrame has none) and its rows.
NormMethods == {"rank", "log_rank", "log", "custom", "zscore"}
ScoreTables ==
    UNION {[1..n -> [gene : GeneNames, score : {RInt(0), RInt(2)}]] : n \in 0..MaxGenes}
SsgseaDataObjects ==
    {[kind |-> "DataFrame", name |-> None, rows |-> t] : t \in ScoreTables}
        \cup {[kind |-> "Series", name |-> nm, rows |-> t] :
                 nm \in {None, Some("s")}, t \in ScoreTables}
GseaDataObjects ==
    {[kind |-> "DataFrame", name |-> None, rows |-> t.rows] :
        t \in DataTables(LabelVec(<<3, 3, 0>>))}

\* given.data is the caller's object as it is now, given.before as it was
\* when the call began; returned.dat is the table in the callee's hands and
\* returned.shares tells whether it is a view of the caller's values.
InitLoadNorm ==
    /\ \/ /\ callee = "GSEA.load_data"
          /\ \E o \in GseaDataObjects : given = [data |-> o, before |-> o, norm |-> ""]
       \/ /\ callee = "SingleSampleGSEA.load_data"
          /\ \E o \in SsgseaDataObjects, nm \in NormMethods :
                given = [data |-> o, before |-> o, norm |-> nm]
    /\ returned = <<>>
    /\ cpc = "call"
    /\ NoRun /\ NoMetricCall /\ NoEngine

\* GSEA.load_data, lines 75-120: exprs = self.data.copy(), and every later
\* step works on exprs.
GseaLoadDataCopy ==
    /\ callee = "GSEA.load_data" /\ cpc = "call"
    /\ returned' =
          [dat |-> LoadData([ncols |-> 6, unit |-> "1", rows |-> given.data.rows],
                            LabelVec(<<3, 3, 0>>)).dat,
           shares |-> FALSE]
    /\ cpc' = "loaded"
    /\ UNCHANGED <<callee, given>>
    /\ UNCHANGED notCallVars

\* SingleSampleGSEA.load_data, lines 531-580. A DataFrame is copied. A
\* Series without a name is named "sample1", on the caller's object, and
\* to_frame() gives a frame that, depending on the pandas build, is a view of
\* the Series' values or a copy; groupby(...).mean() gives a new table.
SsgseaLoadDataReturn ==
    /\ callee = "SingleSampleGSEA.load_data" /\ cpc = "call"
    /\ given.data.kind = "Series" => given.data.name = None
    /\ LET fresh == given.data.kind = "DataFrame"
                       \/ Cardinality(GenesOf(given.data.rows)) < Len(given.data.rows)
       IN  \E view \in BOOLEAN :
              returned' = [dat |-> SsgseaLoadDataOf(given.data.rows),
                           shares |-> ~fresh /\ view]
    /\ given' = IF given.data.kind = "Series"
                THEN [given EXCEPT !.data.name = Some("sample1")]
                ELSE given
    /\ cpc' = "loaded"
    /\ UNCHANGED callee
    /\ UNCHANGED notCallVars

\* SingleSampleGSEA.load_data, line 551: exprs.name.dtype of a Series whose
\* name is a str raises AttributeError.
SsgseaLoadDataRaise ==
    /\ callee = "SingleSampleGSEA.load_data" /\ cpc = "call"
    /\ given.data.kind = "Series" /\ given.data.name # None
    /\ cpc' = "raised"
    /\ UNCHANGED <<callee, given, returned>>
    /\ UNCHANGED notCallVars

\* SingleSampleGSEA.norm_samples, lines 582-602, on the table load_data
\* returned: "log" assigns 1 to the cells below 1 of that table, in place,
\* which changes the caller's values too when the table is a view of them.
NormSamplesReturn ==
    /\ callee = "SingleSampleGSEA.load_data" /\ cpc = "loaded"
    /\ NormSupported(given.norm)
    /\ returned' = [returned EXCEPT !.dat = NormSamples(returned.dat, given.norm)]
    /\ given' = IF given.norm = "log" /\ returned.shares
                THEN [given EXCEPT !.data.rows = ClipBelowOne(returned.dat)]
                ELSE given
    /\ cpc' = "normalized"
    /\ UNCHANGED callee
    /\ UNCHANGED notCallVars

NormSamplesRaise ==
    /\ callee = "SingleSampleGSEA.load_data" /\ cpc = "loaded"
    /\ ~NormSupported(given.norm)
    /\ cpc' = "raised"
    /\ UNCHANGED <<callee, given, returned>>
    /\ UNCHANGED notCallVars

NextLoadNorm ==
    \/ GseaLoadDataCopy \/ SsgseaLoadDataReturn \/ SsgseaLoadDataRaise
    \/ NormSamplesReturn \/ NormSamplesRaise

SpecLoadNorm == InitLoadNorm /\ [][NextLoadNorm]_vars

\* ------------------------------------------------------------- the runs
InitRun == (InitGsea \/ InitPrerank \/ InitSsgsea) /\ NoMetricCall /\ NoEngine /\ NoCall

NextGsea ==
    \/ GseaCheckMethod \/ GseaAsserts \/ GseaLoadClasses \/ GseaLoadData
    \/ GseaLoadGmt \/ GseaScoreGeneSet \/ GseaScorePhenotype \/ GseaReport

NextPrerank ==
    \/ PrerankAsserts \/ PrerankLoadRanking \/ PrerankLoadGmt
    \/ PrerankScore \/ PrerankReport

NextSsgsea ==
    \/ SsgseaLoadData \/ SsgseaNormSamples \/ SsgseaLoadGmt
    \/ SsgseaScore \/ SsgseaReport

Init == InitRun \/ InitMetric

Next == NextGsea \/ NextPrerank \/ NextSsgsea \/ NextMetric

Spec == Init /\ [][Next]_vars

SpecEngine == InitEngine /\ [][NextEngine]_vars

\* ------------------------------------------------------------ C1, C2, C3, C7
\* The columns labelled c, and the mean and sample standard deviation over
\* them, as the metric table defines them.
C1_Labelled(c) == {j \in DOMAIN classes : classes[j] = c}

RECURSIVE C1_Sum(_, _)
C1_Sum(f, S) ==
    IF S = {} THEN RZero
    ELSE LET j == CHOOSE x \in S : TRUE IN RAdd(f[j], C1_Sum(f, S \ {j}))

C1_Mean(row, S) == RDiv(C1_Sum([j \in S |-> RInt(row[j])], S), RInt(Cardinality(S)))

C1_Std(row, S) ==
    LET m == C1_Mean(row, S)
        dev == [j \in S |-> RMul(RSub(RInt(row[j]), m), RSub(RInt(row[j]), m))]
    IN  RSqrt(RDiv(C1_Sum(dev, S), RInt(Cardinality(S) - 1)))

\* The metric a name asks for (s2n and abs_s2n are short names).
C1_Metric(name) ==
    CASE name = "s2n" -> "signal_to_noise"
      [] name = "abs_s2n" -> "abs_signal_to_noise"
      [] OTHER -> name

\* The score the metric table gives a row.
C1_Score(name, row) ==
    LET P == C1_Labelled(pos)
        N == C1_Labelled(neg)
        mp == C1_Mean(row, P)
        mn == C1_Mean(row, N)
        sp == C1_Std(row, P)
        sn == C1_Std(row, N)
        s2n == FDiv(RSub(mp, mn), RAdd(sp, sn))
    IN  CASE name = "signal_to_noise" -> s2n
          [] name = "abs_signal_to_noise" -> FAbs(s2n)
          [] name = "t_test" ->
                FDivSqrt(RSub(mp, mn),
                         RAdd(RDiv(RMul(sp, sp), RInt(Cardinality(P))),
                              RDiv(RMul(sn, sn), RInt(Cardinality(N)))))
          [] name = "ratio_of_classes" -> FDiv(mp, mn)
          [] name = "diff_of_classes" -> FinR(RSub(mp, mn))
          [] name = "log2_ratio_of_classes" -> FLog2Div(mp, mn)

\* The row of df that carries gene g.
C1_RowOf(g) == (CHOOSE i \in DOMAIN df : df[i].gene = g)

\* C1: every gene of the returned ranking carries the score the requested
\* metric defines for its row: signal_to_noise, abs_signal_to_noise, t_test,
\* ratio_of_classes, diff_of_classes or log2_ratio_of_classes of the per-class
\* means and sample standard deviations and the class sizes.
C1_MetricFormulas ==
    mpc = "returned" =>
        \A i \in DOMAIN ser :
            ser[i].score = C1_Score(C1_Metric(method), df[C1_RowOf(ser[i].gene)].vals)

\* A t_test ranking over classes of sizes 3 and 4 with a nonzero finite score.
C1_Witness ==
    /\ mpc = "returned"
    /\ method = "t_test"
    /\ Len(classes) = 7
    /\ \E i \in DOMAIN ser : ser[i].score.k = "fin" /\ ser[i].score.sgn # 0

\* C2: the returned ranking holds every input gene exactly once and is
\* ordered by score, non-decreasing when ascending and non-increasing
\* otherwise (in the order numpy sorts floats in, a NaN above +inf).
C2_RankingSorted ==
    mpc = "returned" =>
        /\ Len(ser) = Len(df)
        /\ \A r \in DOMAIN df :
              Cardinality({i \in DOMAIN ser : ser[i].gene = df[r].gene}) = 1
        /\ \A i, j \in DOMAIN ser :
              i < j => IF ascending
                       THEN FLeq(ser[i].score, ser[j].score)
                       ELSE FLeq(ser[j].score, ser[i].score)

\* A descending ranking of two genes with different scores.
C2_Witness ==
    /\ mpc = "returned"
    /\ ~ascending
    /\ Len(ser) = 2
    /\ FLess(ser[2].score, ser[1].score)

\* C3: two genes of the returned ranking with equal scores keep the order
\* they have in df (ser_ind holds their positions in df).
C3_StableTies ==
    mpc = "returned" =>
        \A i, j \in DOMAIN ser :
            (i < j /\ ser[i].score = ser[j].score /\ ser[i].score.k # "nan")
                => ser_ind[i] < ser_ind[j]

\* The sum std_pos + std_neg of a row.
C7_StdSum(row) ==
    RAdd(GroupStd(row, GroupCols(classes, pos)), GroupStd(row, GroupCols(classes, neg)))

\* C7: with a metric that divides by the standard deviations, a table that
\* holds a gene with std_pos + std_neg = 0 makes the call fail: it never
\* returns a ranking.
C7_DegenerateInputRaises ==
    (/\ method \in S2NNames \cup AbsS2NNames \cup {"t_test"}
     /\ \E r \in DOMAIN df : C7_StdSum(df[r].vals) = RZero)
        => mpc # "returned"

\* ------------------------------------------------------------------ C4
\* The metric names of the metric table.
C4_MetricNames ==
    {"signal_to_noise", "s2n", "abs_signal_to_noise", "abs_s2n", "t_test",
     "ratio_of_classes", "diff_of_classes", "log2_ratio_of_classes"}

\* Nothing was loaded and the engine was not invoked.
C4_NothingLoaded ==
    /\ events = <<>>
    /\ inputs.classes = None /\ inputs.data = None /\ inputs.gene_sets = None
    /\ engine_call = None
    /\ self.ranking = None /\ self.results = None

\* C4: a metric name that is not in the metric table always fails.
\* calculate_metric called with such a name never returns a ranking: the call
\* is pending or has raised. GSEA.run with a name whose lower-case form is not
\* in the table is at the method check or has failed there, with no class
\* labels, expression data or gene sets loaded and the engine not invoked.
C4_UnrecognizedMetricFails ==
    /\ (mpc # "idle" /\ method \notin C4_MetricNames) =>
          /\ mpc \in {"call", "raised"}
          /\ ser_ind = <<>> /\ ser = <<>>
    /\ (self.module = "gsea" /\ Lower(self.method) \notin C4_MetricNames) =>
          /\ pc \in {"check_method", "failed"}
          /\ pc = "failed" => err = "method"
          /\ C4_NothingLoaded

\* A run given "pearson" has raised at the method check.
C4_Witness ==
    /\ self.module = "gsea" /\ self.method = "pearson"
    /\ pc = "failed" /\ err = "method"
    /\ C4_NothingLoaded

\* ------------------------------------------------------------------ C5
\* The class labels the run has read have a group of fewer than 3 samples.
C5_SmallGroup ==
    /\ inputs.classes # None
    /\ LET labels == The(inputs.classes).labels
       IN  \E c \in LabelsOf(labels) : CountOf(labels, c) < 3

\* C5: when a phenotype group of the class labels has fewer than 3 samples,
\* GSEA.run has failed in load_classes: load_classes is the only loader that
\* was called, the expression data and the gene sets were not read, nothing
\* was scored and the engine was not invoked.
C5_SmallGroupFailsInLoadClasses ==
    C5_SmallGroup =>
        /\ pc = "failed" /\ err = "load_classes"
        /\ events = <<"load_classes">>
        /\ inputs.data = None /\ inputs.gene_sets = None
        /\ engine_call = None
        /\ self.ranking = None /\ self.results = None

\* A mapping with groups of 3 and 2 samples was read and the run has failed.
C5_Witness ==
    /\ inputs.classes # None
    /\ The(inputs.classes).kind = "dict"
    /\ The(inputs.classes).labels = LabelVec(<<3, 2, 0>>)
    /\ pc = "failed" /\ err = "load_classes"

\* ------------------------------------------------------------------ C6
\* C6: for a mapping (dict) whose labels are not exactly two, load_classes
\* has failed and pheno_pos / pheno_neg are still the defaults "pos" / "neg".
C6_MappingNeedsTwoLabels ==
    (/\ inputs.classes # None
     /\ The(inputs.classes).kind = "dict"
     /\ Cardinality(LabelsOf(The(inputs.classes).labels)) # 2) =>
        /\ pc = "failed" /\ err = "load_classes"
        /\ self.pheno_pos = "pos" /\ self.pheno_neg = "neg"

\* ------------------------------------------------------------------ C8
\* The gene universe of the ranking, and the members of term t in it.
C8_Universe == GenesOf(The(self.ranking))
C8_Hits(t) == Cardinality(The(inputs.gene_sets)[t] \cap C8_Universe)

\* C8: in the results of GSEA.run, Prerank.run and SingleSampleGSEA.run every
\* term has at least min_size and at most max_size members in the gene
\* universe of the ranking; and the size filter is not an error: when
\* min_size <= max_size no run fails between loading the gene sets and
\* calling the engine.
C8_SizeFilter ==
    /\ self.results # None =>
          \A rec \in The(self.results) :
              /\ self.min_size <= C8_Hits(rec.term)
              /\ C8_Hits(rec.term) <= self.max_size
    /\ (/\ inputs.gene_sets # None
        /\ self.min_size <= self.max_size
        /\ pc = "failed") => err \in {"calculate_metric", "engine"}
    /\ (/\ inputs.gene_sets # None
        /\ pc = "done") =>
          \A t \in Terms :
              (self.min_size <= C8_Hits(t) /\ C8_Hits(t) <= self.max_size)
                  <=> t \in DOMAIN loc.gmt

\* A run has finished with one term reported and the other dropped for
\* having more members in the universe than max_size.
C8_Witness ==
    /\ pc = "done" /\ self.results # None
    /\ \E t \in Terms : C8_Hits(t) > self.max_size
    /\ Cardinality(The(self.results)) = 1

\* ------------------------------------------------------------------ C9
\* The null table a single worker writes taking the cells in order
\* (permutation by permutation, the gene sets in a fixed order).
C9_TermOrder == <<"T1", "T2">>
C9_TermRank(c, t) ==
    Cardinality({i \in DOMAIN C9_TermOrder :
                    C9_TermOrder[i] \in c.terms
                        /\ \E j \in DOMAIN C9_TermOrder : i < j /\ C9_TermOrder[j] = t})
C9_Position(c, k, t) == k * Cardinality(c.terms) + C9_TermRank(c, t)
C9_SingleThreadTable(c) ==
    [d \in Cells(c) |->
        Some(NullScore(d[2], Draw(c.seed, d[1], d[2], C9_Position(c, d[1], d[2]))))]

\* C9: whatever the thread count and the interleaving of the workers, every
\* null score written is the one a single worker taking the cells in order
\* writes, and the final records are those of that single-threaded run.
C9_Deterministic ==
    /\ epc # "idle" =>
          \A d \in Cells(call) :
              null_table[d] # None => null_table[d] = C9_SingleThreadTable(call)[d]
    /\ epc = "done" => records = Normalize(call, C9_SingleThreadTable(call))

\* Two workers are both at work, and the null score of the last permutation
\* of T2 is written while that of the first permutation of T1 is not: the
\* cells are computed out of order.
C9_Witness ==
    /\ epc = "scoring"
    /\ call.threads = 2 /\ call.permutation_num = 2 /\ call.terms = Terms
    /\ pool[1] # None /\ pool[2] # None
    /\ null_table[<<1, "T2">>] # None
    /\ null_table[<<0, "T1">>] = None

\* ----------------------------------------------------------------- C10
\* The run is configured with no permutations (None for SingleSampleGSEA
\* until run replaces it by 0).
C10_NoPermutations ==
    self.module \in {"gsea", "prerank", "ssgsea"}
        /\ self.permutation_num \in {None, Some(0)}

\* C10: with permutation_num = 0 (None for SingleSampleGSEA) the engine is
\* invoked with 0 permutations and does not fail, a run that reaches the
\* engine completes, and every record reports NES, pval and FDR as NaN.
C10_ZeroPermutationsLegal ==
    C10_NoPermutations =>
        /\ engine_call # None => The(engine_call).permutation_num = 0
        /\ err # "engine"
        /\ engine_call # None => pc \in {"report", "done"}
        /\ self.results # None =>
              \A rec \in The(self.results) :
                  rec.nes = "nan" /\ rec.pval = "nan" /\ rec.fdr = "nan"

\* A SingleSampleGSEA run with no permutations has finished with records.
C10_Witness ==
    /\ self.module = "ssgsea" /\ self.permutation_num = Some(0)
    /\ inputs.data # None
    /\ pc = "done"
    /\ self.results # None /\ The(self.results) # {}
    /\ The(engine_call).permutation_num = 0

\* ----------------------------------------------------------------- C11
C11_Ranking == given.ranking
C11_Members == {i \in DOMAIN C11_Ranking : C11_Ranking[i].gene \in given.gene_set}
C11_Weight(i) == IF given.weight = 0 THEN 1 ELSE AbsI(C11_Ranking[i].score)

RECURSIVE C11_WeightSum(_)
C11_WeightSum(S) ==
    IF S = {} THEN 0
    ELSE LET i == CHOOSE x \in S : TRUE IN C11_Weight(i) + C11_WeightSum(S \ {i})

\* The increment of the running sum at position i.
C11_Increment(i) ==
    IF i \in C11_Members
    THEN Rat(C11_Weight(i), C11_WeightSum(C11_Members))
    ELSE Rat(-1, Len(C11_Ranking) - Cardinality(C11_Members))

\* C11: for a gene set with a member in the ranking, hit_indices are the
\* 0-indexed positions of the members in increasing order; the running sum
\* starts from 0 and grows by |score|^p / (sum of |score|^p over the members)
\* at a hit and by -1 / (L - |members|) at a miss (1 / |members| per hit when
\* p = 0); ES is the value of the running sum of largest magnitude, the first
\* such on ties.
C11_EnrichmentScore ==
    (callee = "enrichment_score" /\ cpc = "returned") =>
        LET hit == returned.hit_indices
            res == returned.RES
            L == Len(C11_Ranking)
        IN  /\ {hit[k] : k \in DOMAIN hit} = {i - 1 : i \in C11_Members}
            /\ \A k \in 1..(Len(hit) - 1) : hit[k] < hit[k + 1]
            /\ Len(res) = L
            /\ \A i \in 1..L :
                  res[i] = RAdd(IF i = 1 THEN RZero ELSE res[i - 1], C11_Increment(i))
            /\ given.weight = 0 =>
                  \A i \in C11_Members :
                      C11_Increment(i) = Rat(1, Cardinality(C11_Members))
            /\ \E i \in 1..L :
                  /\ returned.es = res[i]
                  /\ \A j \in 1..L : ~RLess(RAbs(res[i]), RAbs(res[j]))
                  /\ \A j \in 1..(i - 1) : RLess(RAbs(res[j]), RAbs(res[i]))

\* The ranking g1..g5 with the set {g2, g4}: the increments are miss, hit,
\* miss, hit, miss and hit_indices are [1, 3].
C11_Witness ==
    /\ callee = "enrichment_score" /\ cpc = "returned"
    /\ Len(given.ranking) = 5
    /\ given.gene_set = {GeneName(2), GeneName(4)}
    /\ returned.hit_indices = <<1, 3>>
    /\ RSign(returned.RES[1]) < 0
    /\ RLess(returned.RES[1], returned.RES[2])
    /\ RLess(returned.RES[3], returned.RES[2])
    /\ RLess(returned.RES[3], returned.RES[4])
    /\ RLess(returned.RES[5], returned.RES[4])

\* ----------------------------------------------------------------- C12
\* The null pool of the sign of gene set g's NES.
C12_Pool(g) ==
    IF given.observed[g] >= 0 THEN given.pos_pool ELSE given.neg_pool

\* As extreme as v: on the same side of 0 and at least as far from it.
C12_Extreme(x, v) == IF v >= 0 THEN x >= v ELSE x <= v

\* The two fractions, cross-multiplied: ratio > 1 iff
\* (null as extreme) * (gene sets) > (observed as extreme) * (pool size).
C12_NullCount(g) ==
    Cardinality({i \in DOMAIN C12_Pool(g) : C12_Extreme(C12_Pool(g)[i], given.observed[g])})
C12_ObservedCount(g) ==
    Cardinality({h \in DOMAIN given.observed :
                    C12_Extreme(given.observed[h], given.observed[g])})
C12_RatioAboveOne(g) ==
    C12_NullCount(g) * Len(given.observed) > C12_ObservedCount(g) * Len(C12_Pool(g))

\* C12: for every gene set of a batch whose relevant null pool is not empty,
\* the FDR is a number in [0, 1], and it is exactly 1 whenever the ratio of
\* the two fractions exceeds 1.
C12_FdrInUnitInterval ==
    (callee = "fdr" /\ cpc = "returned") =>
        \A g \in DOMAIN given.observed :
            C12_Pool(g) # <<>> =>
                /\ returned[g] # None
                /\ ~RLess(The(returned[g]), RZero)
                /\ ~RLess(RInt(1), The(returned[g]))
                /\ C12_RatioAboveOne(g) => The(returned[g]) = RInt(1)

\* A batch of two gene sets in which the ratio of one exceeds 1 (its FDR is
\* capped at 1) and the FDR of the other is below 1.
C12_Witness ==
    /\ callee = "fdr" /\ cpc = "returned"
    /\ Len(given.observed) = 2
    /\ \E g \in DOMAIN given.observed :
          C12_Pool(g) # <<>> /\ C12_RatioAboveOne(g) /\ returned[g] = Some(RInt(1))
    /\ \E g \in DOMAIN given.observed :
          /\ returned[g] # None
          /\ RLess(The(returned[g]), RInt(1))

\* ----------------------------------------------------------------- C13
\* C13: whenever a run has invoked the scoring engine, the gene universe it
\* passed has at least 2 genes, and so has the data the run loaded.
C13_UniverseAtLeastTwo ==
    engine_call # None =>
        /\ Len(The(engine_call).genes) >= 2
        /\ Len(loc.dat) >= 2

\* C14: the table Prerank.load_ranking returns holds no NaN and no infinite
\* score, whatever the input frame, a column without any finite value
\* included.
C14_NoNanNoInf ==
    (callee = "load_ranking" /\ cpc = "returned") =>
        \A i \in DOMAIN returned : returned[i].score.k = "num"

\* The members of a sequence are pairwise distinct.
C15_Distinct(s) == \A i, j \in DOMAIN s : i # j => s[i] # s[j]

C15_InputRows ==
    IF self.module = "gsea" THEN The(inputs.data).rows ELSE The(inputs.data)

C15_Loaded ==
    /\ inputs.data # None
    /\ ~(pc = "failed" /\ err = "load_data")

\* C15: after GSEA.load_data, Prerank.load_ranking and
\* SingleSampleGSEA.load_data no gene identifier occurs twice in the data,
\* and none occurs twice in the gene universe handed to the engine,
\* whatever duplicates the input held.
C15_GeneIdsDistinct ==
    /\ C15_Loaded => C15_Distinct(IndexOf(loc.dat))
    /\ engine_call # None => C15_Distinct(The(engine_call).genes)

\* A run whose input named a gene twice has reached the engine.
C15_Witness ==
    /\ C15_Loaded
    /\ ~C15_Distinct(IndexOf(C15_InputRows))
    /\ Len(loc.dat) >= 1
    /\ engine_call # None

\* The errors of a run that are configuration errors: an unsupported metric
\* name, a permutation_type or size window that fails the asserts, an
\* unsupported sample normalization method.
C16_ConfigErrors == {"method", "calculate_metric", "assert", "norm_samples"}

\* C16: a run that aborts on a configuration error leaves no partial
\* result: self.ranking is still None, the engine has not been invoked and
\* to_df has not been called.
C16_NoPartialResult ==
    (pc = "failed" /\ err \in C16_ConfigErrors) =>
        /\ self.ranking = None
        /\ engine_call = None
        /\ \A i \in DOMAIN events : events[i] \notin {"engine", "to_df"}

\* How often a run has called e, and where in the order of its calls.
C17_Count(e) == Cardinality({i \in DOMAIN events : events[i] = e})
C17_Pos(e) == CHOOSE i \in DOMAIN events : events[i] = e
C17_Terms(recs) == {rec.term : rec \in recs}

\* C17: a run filters the gene sets (load_gmt), then invokes the engine
\* exactly once, on all the surviving gene sets, then aggregates exactly once
\* (to_df), on the scores of all of them; a successful run has done all three.
C17_EngineThenAggregation ==
    /\ C17_Count("load_gmt") <= 1 /\ C17_Count("engine") <= 1 /\ C17_Count("to_df") <= 1
    /\ C17_Count("engine") = 1 =>
          /\ C17_Count("load_gmt") = 1
          /\ C17_Pos("load_gmt") < C17_Pos("engine")
          /\ engine_call # None
          /\ The(engine_call).gmt = loc.gmt
          /\ loc.gmt = LoadGmt({The(engine_call).genes[i] :
                                   i \in DOMAIN The(engine_call).genes},
                               The(inputs.gene_sets), self.min_size, self.max_size)
          /\ pc # "failed" =>
                /\ loc.gsum # None
                /\ C17_Terms(The(loc.gsum).summaries) = DOMAIN loc.gmt
    /\ C17_Count("engine") = 0 => engine_call = None /\ loc.gsum = None
    /\ C17_Count("to_df") = 1 =>
          /\ C17_Count("engine") = 1
          /\ C17_Pos("engine") < C17_Pos("to_df")
          /\ self.results # None
          /\ C17_Terms(The(self.results)) = DOMAIN loc.gmt
    /\ C17_Count("to_df") = 0 => self.results = None
    /\ pc = "done" => C17_Count("to_df") = 1

\* A GSEA run has finished with two surviving gene sets.
C17_Witness ==
    /\ self.module = "gsea" /\ pc = "done"
    /\ Cardinality(DOMAIN loc.gmt) = 2
    /\ Cardinality(The(self.results)) = 2

\* The input row of the gene in row i of the table load_data returned.
C18_InputRow(i) ==
    LET rows == given.table.rows
        first == CHOOSE k \in DOMAIN rows :
                    /\ rows[k].gene = returned.dat[i].gene
                    /\ \A j \in 1..(k - 1) : rows[j].gene # rows[k].gene
    IN  rows[first]

\* C18: every gene load_data retains has a positive sum of group standard
\* deviations in the input, the retained cells are the input cells plus
\* 1e-08, and in the matrix returned the signal_to_noise denominator
\* std_pos + std_neg of every gene is not zero under the labels given.
C18_PositiveDenominator ==
    (callee = "load_data" /\ cpc = "returned") =>
        \A i \in DOMAIN returned.dat :
            /\ RLess(RZero, StdSum(C18_InputRow(i).vals, returned.cls_dict))
            /\ returned.offset = Offset
            /\ RAdd(GroupStd(returned.dat[i].vals, GroupCols(returned.cls_dict, "A")),
                    GroupStd(returned.dat[i].vals, GroupCols(returned.cls_dict, "B")))
                   # RZero

\* C19: a metric name that passes the check at the start of GSEA.run is
\* accepted by calculate_metric when the run reaches it in gene_set mode:
\* no run that passed the check fails in calculate_metric.
C19_CheckedNameAccepted ==
    (self.module = "gsea" /\ loc.method # None) =>
        ~(pc = "failed" /\ err = "calculate_metric")

\* The run was given classes as a dict of two groups of three samples or more.
C20_DictOfTwoGroups ==
    /\ self.module = "gsea"
    /\ inputs.classes # None
    /\ The(inputs.classes).kind = "dict"
    /\ Cardinality(LabelsOf(The(inputs.classes).labels)) = 2
    /\ \A c \in LabelsOf(The(inputs.classes).labels) :
          CountOf(The(inputs.classes).labels, c) >= MinGroupSize

\* C20: with classes a dict of two groups of three samples or more, run gets
\* past load_classes and load_data: what load_classes returned is a class
\* vector load_data can use.
C20_DictReachesEngine ==
    C20_DictOfTwoGroups =>
        /\ ~(pc = "failed" /\ err \in {"load_classes", "load_data"})
        /\ pc \notin {"load_classes", "load_data"} => loc.cls_vector # None

\* The number of sample columns of the matrix load_data returned.
C21_Columns == {Len(loc.dat[i].vals) : i \in DOMAIN loc.dat}

\* C21: when GSEA.run invokes gsea_rs the group vector has one entry per
\* column of the matrix, True exactly at the columns labelled pheno_pos; and
\* the cls_dict of load_data labels every column of the matrix it returned
\* and uses every label of the class vector.
C21_GroupMatchesColumns ==
    /\ (engine_call # None /\ The(engine_call).fn = "gsea_rs") =>
          LET group == GroupVector(The(loc.cls_vector), self.pheno_pos)
          IN  /\ \A n \in C21_Columns : Len(group) = n
              /\ Len(group) = Len(loc.cls_dict)
              /\ \A j \in DOMAIN group : group[j] = (loc.cls_dict[j] = self.pheno_pos)
    /\ (self.module = "gsea" /\ pc \in {"load_gmt", "score", "report", "done"}) =>
          /\ \A n \in C21_Columns : DOMAIN loc.cls_dict = 1..n
          /\ Len(loc.cls_dict) = Len(The(loc.cls_vector))

\* C22: the permutation count a run hands to the engine is an integer that
\* is not negative, whatever permutation_num the constructor was given.
C22_PermutationCountNotNegative ==
    engine_call # None =>
        /\ The(engine_call).permutation_num \in Int
        /\ The(engine_call).permutation_num >= 0

\* The score calculate_metric computes for gene g of the matrix of the run.
C23_MetricOf(g) ==
    LET i == CHOOSE k \in DOMAIN loc.dat : loc.dat[k].gene = g
    IN  MetricOfRow(loc.dat[i].vals, self.method, self.pheno_pos, self.pheno_neg,
                    loc.cls_dict)

C23_GeneSetRunDone ==
    self.module = "gsea" /\ self.permutation_type = "gene_set" /\ pc = "done"

\* C23: after GSEA.run in gene_set mode self.ranking holds every gene of the
\* matrix once, and position i carries the score calculate_metric computed
\* for the gene named at position i, for either value of ascending.
C23_RankingPairsGeneWithScore ==
    C23_GeneSetRunDone =>
        LET rk == The(self.ranking)
        IN  /\ Len(rk) = Len(loc.dat)
            /\ GenesOf(rk) = GenesOf(loc.dat)
            /\ \A i \in DOMAIN rk : rk[i].score = C23_MetricOf(rk[i].gene)

\* An ascending run over two genes of different scores: the ranking starts
\* with the second gene of the matrix, which has the lower score.
C23_Witness ==
    /\ C23_GeneSetRunDone
    /\ self.ascending
    /\ Len(loc.dat) = 2
    /\ The(self.ranking)[1].gene = loc.dat[2].gene
    /\ FLess(The(self.ranking)[1].score, The(self.ranking)[2].score)

\* C24: loading and normalizing leave the object the caller passed as data
\* as it was: its values, its index and its name are those it had before
\* the call, for a DataFrame and for a Series and for every normalization
\* method.
C24_InputUnchanged ==
    callee \in {"GSEA.load_data", "SingleSampleGSEA.load_data"} =>
        given.data = given.before

====
